---- MODULE Spec2Model ----
(***************************************************************************)
(* The two HTTP handlers of the youtube-downloader backend:                *)
(*   api/download.py        the info / resolve handler                     *)
(*   api/proxy-download.py  the streaming proxy handler                    *)
(* One request is handled at a time; every request starts from a fresh     *)
(* handler object, so all state below is per-request.                      *)
(*                                                                         *)
(* Python strings that the code inspects character by character (the url   *)
(* of the info handler, the filename of the proxy handler) are sequences   *)
(* of one-character strings.  Python values that may be missing, None, a   *)
(* string or a number are tagged records (Absent, None, Str(s), Num(n), List(l)).   *)
(***************************************************************************)
EXTENDS Integers, Sequences, FiniteSets, TLC

VARIABLES
    pc,            \* position of the request being handled
    endpoint,      \* "info" | "proxy" | "none"
    method,        \* "POST" | "OPTIONS" | "none"
    post_data,     \* the request body as the client sent it
    url,           \* download.py: url after .strip()
    action,        \* download.py: action
    info,          \* download.py: what extract_info returned
    download_url,  \* proxy-download.py: download_url
    filename,      \* proxy-download.py: filename (after re.sub once cleaned)
    response,      \* proxy-download.py: the upstream response
    nread,         \* proxy-download.py: chunks consumed from response.iter_content
    wire,          \* everything written to the client, in order
    extractCalls,  \* number of ydl.extract_info calls made for this request
    upstreamGets,  \* number of requests.get calls made for this request
    exc            \* the exception the handler caught, if any

vars == <<pc, endpoint, method, post_data, url, action, info, download_url,
          filename, response, nread, wire, extractCalls, upstreamGets, exc>>

-----------------------------------------------------------------------------
(* Bounds of the model *)

MaxFormats == 2
MaxChunks == 2
MaxNameLen == 2

-----------------------------------------------------------------------------
(* Python values *)

Absent == [t |-> "absent"]
None == [t |-> "None"]
Str(s) == [t |-> "str", v |-> s]
Num(n) == [t |-> "int", v |-> n]
List(l) == [t |-> "list", v |-> l]
Nil == [t |-> "nil"]

IsStr(x) == x.t = "str"

\* bool(x) of Python for the values above
Truthy(x) ==
    \/ x.t \in {"str", "list"} /\ Len(x.v) > 0
    \/ x.t = "int" /\ x.v # 0

\* d.get(k): None when the key is absent
Get(d, k) == IF d[k] = Absent THEN None ELSE d[k]

\* d.get(k, default): the default only when the key is absent
GetDefault(d, k, default) == IF d[k] = Absent THEN default ELSE d[k]

\* a or b
PyOr(a, b) == IF Truthy(a) THEN a ELSE b

-----------------------------------------------------------------------------
(* Strings *)

Whitespace == {" ", "\t", "\n", "\r", "\f"}
Lowercase == {"a", "b", "c", "d", "e", "f", "g", "h", "i", "j", "k", "l", "m",
              "n", "o", "p", "q", "r", "s", "t", "u", "v", "w", "x", "y", "z"}
Uppercase == {"A", "B", "C", "D", "E", "F", "G", "H", "I", "J", "K", "L", "M",
              "N", "O", "P", "Q", "R", "S", "T", "U", "V", "W", "X", "Y", "Z"}
Digits == {"0", "1", "2", "3", "4", "5", "6", "7", "8", "9"}

HasPrefix(s, p) == Len(s) >= Len(p) /\ SubSeq(s, 1, Len(p)) = p

RECURSIVE LStrip(_)
LStrip(s) == IF s # <<>> /\ Head(s) \in Whitespace THEN LStrip(Tail(s)) ELSE s

RECURSIVE RStrip(_)
RStrip(s) ==
    IF s # <<>> /\ s[Len(s)] \in Whitespace
    THEN RStrip(SubSeq(s, 1, Len(s) - 1))
    ELSE s

\* str.strip()
Strip(s) == RStrip(LStrip(s))

HTTP == <<"h", "t", "t", "p", ":", "/", "/">>
HTTPS == <<"h", "t", "t", "p", "s", ":", "/", "/">>
WWW == <<"w", "w", "w", ".">>
YOUTUBE_COM == <<"y", "o", "u", "t", "u", "b", "e", ".", "c", "o", "m">>
YOUTU_BE == <<"y", "o", "u", "t", "u", ".", "b", "e">>

\* The pattern with its dots left unescaped: a '.' of the pattern matches
\* any character
YoutubeRegexMatch_UnescapedDot(s) ==
    \E scheme \in {<<>>, HTTP, HTTPS}, www \in {<<>>, WWW},
       host \in {YOUTUBE_COM, YOUTU_BE} :
        LET p == scheme \o www \o host \o <<"/">>
        IN  /\ Len(s) > Len(p)
            /\ \A j \in 1..Len(p) : p[j] = "." \/ s[j] = p[j]
            /\ s[Len(p) + 1] # "\n"

\* re.match(r'^(https?://)?(www\.)?(youtube\.com|youtu\.be)/.+', s):
\* an optional scheme, an optional www., one of the two hosts, a slash and
\* at least one character that is not a newline ('.' without DOTALL).
YoutubeRegexMatch(s) ==
    \E scheme \in {<<>>, HTTP, HTTPS}, www \in {<<>>, WWW},
       host \in {YOUTUBE_COM, YOUTU_BE} :
        LET p == scheme \o www \o host \o <<"/">>
        IN  /\ HasPrefix(s, p)
            /\ Len(s) > Len(p)
            /\ s[Len(p) + 1] # "\n"

-----------------------------------------------------------------------------
(* What is written to the client.  The caller reads the first status line   *)
(* and the header block up to the first end of headers; all later output    *)
(* is the response body.                                                    *)

\* send_response(code): the status line (the Server and Date headers that
\* go with it are left out)
Status(code) == [k |-> "status", code |-> code]
Header(name, value) == [k |-> "header", name |-> name, value |-> value]
EndHeaders == [k |-> "end_headers"]
Body(data) == [k |-> "body", data |-> data]
Chunk(i) == [k |-> "chunk", n |-> i]

CorsHeaders ==
    <<Header("Access-Control-Allow-Origin", <<"*">>),
      Header("Access-Control-Allow-Methods", <<"POST, OPTIONS">>),
      Header("Access-Control-Allow-Headers", <<"Content-Type">>)>>

\* json.dumps({'error': ...}) written to wfile
ErrorBody(msg) == Body([error |-> msg])

-----------------------------------------------------------------------------
(* download.py: request bodies *)

W == <<"/", "w">>

InfoUrls ==
    { <<>>,
      <<" ">>,
      <<"\t", "\n">>,
      YOUTUBE_COM \o W,
      <<" ">> \o HTTPS \o YOUTU_BE \o W \o <<"\n">>,
      HTTP \o WWW \o YOUTUBE_COM \o W,
      WWW \o YOUTU_BE \o W,
      <<"H", "T", "T", "P", ":", "/", "/">> \o YOUTUBE_COM \o W,
      <<"f", "t", "p", ":", "/", "/">> \o YOUTUBE_COM \o W,
      YOUTUBE_COM,
      YOUTUBE_COM \o <<"/">>,
      YOUTUBE_COM \o <<"/", "\n", "w">>,
      <<"y", "o", "u", "t", "u", "b", "e", "X", "c", "o", "m">> \o W,
      <<"v", "i", "m", "e", "o", ".", "c", "o", "m">> \o W,
      <<"x">> \o YOUTUBE_COM \o W,
      HTTPS \o <<"e", ".", "c", "o", "/">> \o YOUTUBE_COM \o W,
      WWW \o WWW \o YOUTUBE_COM \o W,
      HTTPS \o <<" ">> \o YOUTUBE_COM \o W }

ACTION_INFO == Str(<<"info">>)
ACTION_GET_DOWNLOAD_URL == Str(<<"get_download_url">>)

JsonObject(u, a) == [kind |-> "json_object", url |-> u, action |-> a]

\* The bodies a client may POST to the info handler: no Content-Length
\* header, bytes that are not JSON, JSON that is not an object, and JSON
\* objects with or without url and action.
InfoBodies ==
    { [kind |-> k, url |-> Nil, action |-> Nil] :
          k \in {"no_length", "not_json", "json_other"} }
    \cup { JsonObject(Str(u), Absent) : u \in InfoUrls }
    \cup { JsonObject(u, Absent) : u \in {Absent, None, Num(5)} }
    \cup { JsonObject(Str(u), a) :
             u \in { <<>>, YOUTUBE_COM \o W, YOUTUBE_COM },
             a \in { ACTION_INFO, ACTION_GET_DOWNLOAD_URL, Str(<<"download">>) } }

\* Lines 24-43 of do_POST: read and parse the body, then validate the url.
\* result is "raise" (an exception left the try block), "required",
\* "invalid" or "ok".
ParseInfoRequest(body) ==
    LET fail(e) == [result |-> "raise", url |-> Nil, action |-> Nil, exc |-> e]
    IN
    CASE body.kind = "no_length" -> fail(<<"TypeError">>)
      [] body.kind = "not_json" -> fail(<<"JSONDecodeError">>)
      [] body.kind = "json_other" -> fail(<<"AttributeError">>)
      [] OTHER ->
            LET u == GetDefault(body, "url", Str(<<>>))
                a == GetDefault(body, "action", ACTION_INFO)
            IN  IF ~IsStr(u) THEN fail(<<"AttributeError">>)
                ELSE LET stripped == Strip(u.v)
                     IN [ result |-> IF stripped = <<>> THEN "required"
                                     ELSE IF ~YoutubeRegexMatch(stripped) THEN "invalid"
                                     ELSE "ok",
                          url |-> Str(stripped), action |-> a, exc |-> <<>> ]

-----------------------------------------------------------------------------
(* download.py: what the extractor returns *)

\* One entry of info['formats'].  The url of the i-th entry, when it has
\* one, is unique to the entry, so a response tells which entry was chosen.
FormatUrl(i) == Str(<<"https://cdn/", ToString(i)>>)

FormatShapes ==
    [ ext : {Str(<<"mp4">>), Str(<<"webm">>)},
      has_url : BOOLEAN,
      vcodec : {Absent, Str(<<"none">>), Str(<<"avc1">>)},
      acodec : {Absent, Str(<<"none">>), Str(<<"mp4a">>)} ]

Format(shape, i) ==
    [ ext |-> shape.ext,
      url |-> IF shape.has_url THEN FormatUrl(i) ELSE Absent,
      vcodec |-> shape.vcodec,
      acodec |-> shape.acodec,
      filesize |-> Absent,
      filesize_approx |-> Absent,
      format_note |-> Absent,
      height |-> Num(720) ]

InfoDict(title, duration, thumbnail, uploader, id, page, size, approx, formats) ==
    [ title |-> title, duration |-> duration, thumbnail |-> thumbnail,
      uploader |-> uploader, id |-> id, webpage_url |-> page,
      filesize |-> size, filesize_approx |-> approx, formats |-> formats ]

\* A result whose format list is formats and whose metadata is all set
FormatsInfo(formats) ==
    InfoDict(Str(<<"T">>), Num(125), Absent, Absent, Str(<<"abc">>), Absent,
             Absent, Absent, formats)

\* What ydl.extract_info does: it returns a dict or None, or it raises.
Returned(i) == [k |-> "return", info |-> i, msg |-> <<>>]
Raised(k, m) == [k |-> k, info |-> Nil, msg |-> m]

DownloadErrorMessages ==
    { <<"ERROR:", "Sign in to confirm", "you are not a robot">>,
      <<"ERROR:", "Bot", "detected">>,
      <<"ERROR:", "Video unavailable">>,
      <<"ERROR:", "Age-Restricted", "video">>,
      <<"ERROR:", "Unsupported URL">> }

\* 'not info': None and the empty dict are falsy
InfoKeys ==
    {"title", "duration", "thumbnail", "uploader", "id", "webpage_url",
     "filesize", "filesize_approx", "formats"}

InfoFalsy(i) == i = None \/ \A key \in InfoKeys : i[key] = Absent

-----------------------------------------------------------------------------
(* download.py: response shaping *)

\* f"{n}" for n >= 0
RECURSIVE Decimal(_)
Decimal(n) ==
    LET d == <<"0", "1", "2", "3", "4", "5", "6", "7", "8", "9">>[(n % 10) + 1]
    IN  IF n < 10 THEN <<d>> ELSE Decimal(n \div 10) \o <<d>>

\* f"{n:02d}"
Decimal02(n) == IF n < 10 THEN <<"0">> \o Decimal(n) ELSE Decimal(n)

\* Lines 85-91
FormatDuration(i) ==
    LET duration_seconds == GetDefault(i, "duration", Num(0))
    IN  IF Truthy(duration_seconds)
        THEN Str(Decimal(duration_seconds.v \div 60) \o <<":">>
                 \o Decimal02(duration_seconds.v % 60))
        ELSE Str(<<"Unknown">>)

\* Lines 98-103: scanning from entry i down to 1, the index of the first
\* entry with ext == 'mp4', a url and vcodec != 'none'; 0 when there is none.
RECURSIVE InfoMp4Scan(_, _)
InfoMp4Scan(formats, i) ==
    IF i = 0 THEN 0
    ELSE IF /\ Get(formats[i], "ext") = Str(<<"mp4">>)
            /\ Truthy(Get(formats[i], "url"))
            /\ Get(formats[i], "vcodec") # Str(<<"none">>)
         THEN i
         ELSE InfoMp4Scan(formats, i - 1)

\* Lines 107-111 and 179-182: the first entry, scanning down from i, with
\* a url and vcodec != 'none'.
RECURSIVE FallbackScan(_, _)
FallbackScan(formats, i) ==
    IF i = 0 THEN 0
    ELSE IF /\ Truthy(Get(formats[i], "url"))
            /\ Get(formats[i], "vcodec") # Str(<<"none">>)
         THEN i
         ELSE FallbackScan(formats, i - 1)

\* The scan of lines 169-175 without its acodec test
DownloadMp4Scan_NoAudioTest(formats, i) == InfoMp4Scan(formats, i)

\* Lines 169-175: the first entry, scanning down from i, with ext == 'mp4',
\* a url, vcodec != 'none' and acodec != 'none'.
RECURSIVE DownloadMp4Scan(_, _)
DownloadMp4Scan(formats, i) ==
    IF i = 0 THEN 0
    ELSE IF /\ Get(formats[i], "ext") = Str(<<"mp4">>)
            /\ Truthy(Get(formats[i], "url"))
            /\ Get(formats[i], "vcodec") # Str(<<"none">>)
            /\ Get(formats[i], "acodec") # Str(<<"none">>)
         THEN i
         ELSE DownloadMp4Scan(formats, i - 1)

\* Lines 94-111: download_url of the info action (None when nothing fits)
InfoDownloadUrl(formats) ==
    LET first == InfoMp4Scan(formats, Len(formats))
        second == FallbackScan(formats, Len(formats))
    IN  IF first # 0 THEN formats[first].url
        ELSE IF second # 0 THEN formats[second].url
        ELSE None

\* Lines 165-182: index of best_format, 0 when best_format stays None
BestFormat(formats) ==
    LET first == DownloadMp4Scan(formats, Len(formats))
    IN  IF first # 0 THEN first ELSE FallbackScan(formats, Len(formats))

\* Lines 113-121
VideoInfo(i, u) ==
    [ title |-> GetDefault(i, "title", Str(<<"Unknown Title">>)),
      duration |-> FormatDuration(i),
      thumbnail |-> GetDefault(i, "thumbnail", Str(<<>>)),
      uploader |-> GetDefault(i, "uploader", Str(<<"Unknown">>)),
      video_id |-> GetDefault(i, "id", Str(<<>>)),
      download_url |->
          PyOr(InfoDownloadUrl(GetDefault(i, "formats", List(<<>>)).v),
               GetDefault(i, "webpage_url", Str(u))),
      filesize |->
          PyOr(Get(i, "filesize"),
               GetDefault(i, "filesize_approx", Str(<<"Unknown">>))) ]

\* Lines 190-197; the filename is the title, a dot and the extension
DownloadResponse(i, best) ==
    [ success |-> TRUE,
      download_url |-> best.url,
      filename |-> [ stem |-> GetDefault(i, "title", Str(<<"video">>)),
                     ext |-> GetDefault(best, "ext", Str(<<"mp4">>)) ],
      filesize |-> PyOr(Get(best, "filesize"), Get(best, "filesize_approx")),
      format_note |-> GetDefault(best, "format_note", Str(<<>>)),
      quality |-> GetDefault(best, "height", Str(<<"Unknown">>)) ]

\* str.lower() of one word of an error message
Lower(word) ==
    CASE word = "Bot" -> "bot"
      [] word = "Age-Restricted" -> "age-restricted"
      [] OTHER -> word

\* 'needle in msg', an error message being a sequence of phrases; the one
\* substring match inside a phrase the messages above have is the 'bot'
\* of 'robot'
Contains(msg, needle) ==
    \E j \in 1..Len(msg) :
        \/ msg[j] = needle
        \/ needle = "bot" /\ msg[j] = "you are not a robot"

LowerMsg(msg) == [j \in 1..Len(msg) |-> Lower(msg[j])]

\* Lines 201-219
DownloadErrorMessage(msg) ==
    IF Contains(msg, "Sign in to confirm") \/ Contains(LowerMsg(msg), "bot")
    THEN <<"YouTube is currently blocking automated requests. Please try again in a few minutes, or try a different video.">>
    ELSE IF Contains(msg, "Video unavailable")
    THEN <<"This video is unavailable (may be private, deleted, or region-restricted).">>
    ELSE IF Contains(LowerMsg(msg), "age-restricted")
    THEN <<"This video is age-restricted and cannot be downloaded without signing in.">>
    ELSE <<"YouTube error: ">> \o msg

\* Lines 221-225
ServerErrorMessage(e) == <<"Server error: ">> \o e

-----------------------------------------------------------------------------
(* proxy-download.py: request bodies, filename cleaning, error responses *)

MEDIA_URL == Str(<<"https://cdn/1">>)
DEFAULT_FILENAME == <<"v", "i", "d", "e", "o", ".", "m", "p", "4">>

\* "My Video!@#.mp4"
MY_VIDEO ==
    <<"M", "y", " ", "V", "i", "d", "e", "o", "!", "@", "#", ".", "m", "p", "4">>

\* One character of each kind the cleaning tells apart
NameChars == {"a", "Z", "7", " ", "\t", "\n", "\"", "!"}

LongNames ==
    { MY_VIDEO,
      <<"a", "-", "b", "_", "c", ".", "d">>,
      <<"a", "\r", "\n", "X", ":", " ", "y">>,
      <<"a", "\"", ";", "x", "=", "\"", "b">>,
      <<".", ".", "/", "x">> }

ProxyBody(kind, d, f) == [kind |-> kind, download_url |-> d, filename |-> f]

\* Lines 10-22: read the body and take download_url and filename out of it,
\* from JSON first and from form data when the body is not JSON.  parse_qs
\* drops fields with a blank value.
ParseProxyRequest(body) ==
    LET fail(e) == [result |-> "raise", download_url |-> Nil, filename |-> Nil,
                    exc |-> e]
        ok(d, f) == [result |-> "ok", download_url |-> d, filename |-> f,
                     exc |-> <<>>]
        formField(x) == IF x = Str(<<>>) THEN Absent ELSE x
    IN
    CASE body.kind = "no_length" -> fail(<<"TypeError">>)
      [] body.kind = "bad_utf8" -> fail(<<"UnicodeDecodeError">>)
      [] body.kind = "json_other" -> fail(<<"AttributeError">>)
      [] body.kind = "json_object" ->
            ok(Get(body, "download_url"),
               GetDefault(body, "filename", Str(DEFAULT_FILENAME)))
      [] OTHER ->
            LET form_data == [ download_url |-> formField(body.download_url),
                               filename |-> formField(body.filename) ]
            IN  ok(GetDefault(form_data, "download_url", None),
                   GetDefault(form_data, "filename", Str(DEFAULT_FILENAME)))

\* The character class of line 30 without its \s
KeptChar_NoWhitespace(c) ==
    c \in Lowercase \cup Uppercase \cup Digits \cup {"-", "_", "."}

\* The characters [a-zA-Z0-9\s\-_\.] of line 30; \s is any whitespace
KeptChar(c) ==
    c \in Lowercase \cup Uppercase \cup Digits \cup Whitespace \cup {"-", "_", "."}

\* Line 30: re.sub(r'[^a-zA-Z0-9\s\-_\.]', '_', filename)
CleanFilename(name) ==
    [j \in 1..Len(name) |-> IF KeptChar(name[j]) THEN name[j] ELSE "_"]

\* BaseHTTPRequestHandler.send_error as lines 25, 36 and 57 call it: a
\* status line, its own headers and, for the codes that carry one, an HTML
\* body with the message
SendError(code, message) ==
    <<Status(code), Header("Connection", <<"close">>)>>
    \o (IF code >= 200 /\ code \notin {204, 205, 304}
        THEN <<Header("Content-Type", <<"text/html;charset=utf-8">>),
               Header("Content-Length", <<"len(body)">>),
               EndHeaders,
               Body([code |-> code, message |-> message])>>
        ELSE <<EndHeaders>>)

\* Status codes the upstream host answers with
UpstreamStatuses == {200, 204, 206, 404, 503}

-----------------------------------------------------------------------------
(* The state before a request arrives *)

Init ==
    /\ pc = "idle"
    /\ endpoint = "none"
    /\ method = "none"
    /\ post_data = Nil
    /\ url = Nil
    /\ action = Nil
    /\ info = Nil
    /\ download_url = Nil
    /\ filename = Nil
    /\ response = Nil
    /\ nread = 0
    /\ wire = <<>>
    /\ extractCalls = 0
    /\ upstreamGets = 0
    /\ exc = <<>>

-----------------------------------------------------------------------------
(* download.py: handler.do_POST and handler.do_OPTIONS *)

\* Lines 15-20
InfoResponseHead ==
    <<Status(200), Header("Content-type", <<"application/json">>)>>
    \o CorsHeaders \o <<EndHeaders>>

\* Lines 13-46: the head of the response is sent first; the body is then
\* read, parsed and validated.  The handler goes on to the extractor only
\* with a url that passed both checks and an action that has a branch.
InfoPostBegin(body) ==
    /\ pc = "idle"
    /\ endpoint' = "info"
    /\ method' = "POST"
    /\ post_data' = body
    /\ LET r == ParseInfoRequest(body)
       IN  /\ url' = r.url
           /\ action' = r.action
           /\ exc' = r.exc
           /\ CASE r.result = "raise" ->
                     /\ wire' = InfoResponseHead \o <<ErrorBody(ServerErrorMessage(r.exc))>>
                     /\ pc' = "done"
                [] r.result = "required" ->
                     /\ wire' = InfoResponseHead \o <<ErrorBody(<<"URL is required">>)>>
                     /\ pc' = "done"
                [] r.result = "invalid" ->
                     /\ wire' = InfoResponseHead \o <<ErrorBody(<<"Invalid YouTube URL">>)>>
                     /\ pc' = "done"
                [] OTHER ->
                     /\ wire' = InfoResponseHead
                     /\ pc' = IF r.action \in {ACTION_INFO, ACTION_GET_DOWNLOAD_URL}
                              THEN "info_extract"
                              ELSE "done"
    /\ UNCHANGED <<info, download_url, filename, response, nread, extractCalls,
                   upstreamGets>>

\* A client POSTs one of the bodies above to the info handler
InfoPost ==
    /\ pc = "idle"
    /\ \E body \in InfoBodies : InfoPostBegin(body)

\* Lines 78-128: the info action once extract_info has returned i
InfoActionBody(i, u) ==
    IF InfoFalsy(i)
    THEN [raised |-> <<>>, body |-> ErrorBody(<<"Could not extract video information">>)]
    ELSE IF GetDefault(i, "formats", List(<<>>)).t # "list"
    THEN [raised |-> <<"TypeError">>,
          body |-> ErrorBody(ServerErrorMessage(<<"TypeError">>))]
    ELSE [raised |-> <<>>,
          body |-> Body([success |-> TRUE, video_info |-> VideoInfo(i, u)])]

\* Lines 158-199: the get_download_url action once extract_info has returned i
DownloadActionBody(i) ==
    IF InfoFalsy(i)
    THEN [raised |-> <<>>, body |-> ErrorBody(<<"Could not extract download URL">>)]
    ELSE IF GetDefault(i, "formats", List(<<>>)).t # "list"
    THEN [raised |-> <<"TypeError">>,
          body |-> ErrorBody(ServerErrorMessage(<<"TypeError">>))]
    ELSE LET formats == GetDefault(i, "formats", List(<<>>)).v
             best == BestFormat(formats)
         IN  IF best = 0
             THEN [raised |-> <<>>,
                   body |-> ErrorBody(<<"No suitable download format found">>)]
             ELSE [raised |-> <<>>,
                   body |-> Body(DownloadResponse(i, formats[best]))]

\* Lines 48-225: extract_info is called once; its result is shaped into the
\* one body written, and an exception it raises into an error body.
InfoExtract(outcome) ==
    /\ pc = "info_extract"
    /\ extractCalls' = extractCalls + 1
    /\ CASE outcome.k = "DownloadError" ->
              /\ info' = Nil
              /\ exc' = outcome.msg
              /\ wire' = Append(wire, ErrorBody(DownloadErrorMessage(outcome.msg)))
         [] outcome.k = "Exception" ->
              /\ info' = Nil
              /\ exc' = outcome.msg
              /\ wire' = Append(wire, ErrorBody(ServerErrorMessage(outcome.msg)))
         [] OTHER ->
              LET r == IF action = ACTION_INFO
                       THEN InfoActionBody(outcome.info, url.v)
                       ELSE DownloadActionBody(outcome.info)
              IN  /\ info' = outcome.info
                  /\ exc' = r.raised
                  /\ wire' = Append(wire, r.body)
    /\ pc' = "done"
    /\ UNCHANGED <<endpoint, method, post_data, url, action, download_url,
                   filename, response, nread, upstreamGets>>

\* extract_info returns a dict whose metadata keys are each missing, None
\* or set, and that has no format list
InfoExtractMetadata ==
    /\ pc = "info_extract"
    /\ \E title \in {Absent, None, Str(<<"T">>)},
          duration \in {Absent, None, Num(0), Num(125)},
          thumbnail \in {Absent, None, Str(<<"thumb.jpg">>)},
          uploader \in {Absent, None, Str(<<"U">>)},
          id \in {Absent, None, Str(<<"abc">>)},
          webpage_url \in {Absent, None, Str(<<"https://page">>)},
          filesize \in {Absent, None, Num(5)},
          filesize_approx \in {Absent, None, Num(7)} :
            InfoExtract(Returned(InfoDict(title, duration, thumbnail, uploader,
                                          id, webpage_url, filesize,
                                          filesize_approx, Absent)))

\* extract_info returns a dict with a format list of up to MaxFormats entries
InfoExtractFormats ==
    /\ pc = "info_extract"
    /\ \E n \in 0..MaxFormats : \E shapes \in [1..n -> FormatShapes] :
            InfoExtract(Returned(FormatsInfo(
                List([i \in 1..n |-> Format(shapes[i], i)]))))

\* extract_info returns None, or a dict whose 'formats' is None
InfoExtractNothing ==
    /\ pc = "info_extract"
    /\ \E i \in {None, FormatsInfo(None)} : InfoExtract(Returned(i))

\* extract_info raises yt_dlp.DownloadError or another exception
InfoExtractRaises ==
    /\ pc = "info_extract"
    /\ \/ \E m \in DownloadErrorMessages : InfoExtract(Raised("DownloadError", m))
       \/ InfoExtract(Raised("Exception", <<"ConnectionResetError">>))

\* Lines 227-233
InfoOptions ==
    /\ pc = "idle"
    /\ endpoint' = "info"
    /\ method' = "OPTIONS"
    /\ wire' = <<Status(200)>> \o CorsHeaders \o <<EndHeaders>>
    /\ pc' = "done"
    /\ UNCHANGED <<post_data, url, action, info, download_url, filename,
                   response, nread, extractCalls, upstreamGets, exc>>

-----------------------------------------------------------------------------
(* proxy-download.py: handler.do_POST and handler.do_OPTIONS *)

\* Lines 8-30 and 56-57: parse the body, require download_url, clean the
\* filename.  Nothing is written to the client unless the request ends here.
ProxyPostBegin(body) ==
    /\ pc = "idle"
    /\ endpoint' = "proxy"
    /\ method' = "POST"
    /\ post_data' = body
    /\ LET r == ParseProxyRequest(body)
       IN  CASE r.result = "raise" ->
                  /\ download_url' = Nil
                  /\ filename' = Nil
                  /\ exc' = r.exc
                  /\ wire' = SendError(500, <<"Download error: ">> \o r.exc)
                  /\ pc' = "done"
             [] r.result = "ok" /\ ~Truthy(r.download_url) ->
                  /\ download_url' = r.download_url
                  /\ filename' = r.filename
                  /\ exc' = <<>>
                  /\ wire' = SendError(400, <<"Missing download URL">>)
                  /\ pc' = "done"
             [] r.result = "ok" /\ Truthy(r.download_url) /\ ~IsStr(r.filename) ->
                  /\ download_url' = r.download_url
                  /\ filename' = r.filename
                  /\ exc' = <<"TypeError">>
                  /\ wire' = SendError(500, <<"Download error: ", "TypeError">>)
                  /\ pc' = "done"
             [] OTHER ->
                  /\ download_url' = r.download_url
                  /\ filename' = Str(CleanFilename(r.filename.v))
                  /\ exc' = <<>>
                  /\ wire' = <<>>
                  /\ pc' = "proxy_fetch"
    /\ UNCHANGED <<url, action, info, response, nread, extractCalls, upstreamGets>>

\* The body is no JSON object and no form: no Content-Length header, bytes
\* that are not UTF-8, or JSON that is not an object
ProxyPostMalformed ==
    /\ pc = "idle"
    /\ \E kind \in {"no_length", "bad_utf8", "json_other"} :
            ProxyPostBegin(ProxyBody(kind, Nil, Nil))

\* A JSON object; download_url and filename each missing, null or set
ProxyPostJson ==
    /\ pc = "idle"
    /\ \E d \in {Absent, None, Str(<<>>), MEDIA_URL},
          f \in {Absent, None, Num(1)} \cup { Str(n) : n \in LongNames } :
            ProxyPostBegin(ProxyBody("json_object", d, f))

\* A JSON object with a download_url and a filename of up to MaxNameLen
\* characters
ProxyPostNamed ==
    /\ pc = "idle"
    /\ \E n \in 0..MaxNameLen : \E name \in [1..n -> NameChars] :
            ProxyPostBegin(ProxyBody("json_object", MEDIA_URL, Str(name)))

\* URL-encoded form data; a field is missing, blank or set
ProxyPostForm ==
    /\ pc = "idle"
    /\ \E d \in {Absent, Str(<<>>), MEDIA_URL},
          f \in {Absent, Str(<<>>), Str(MY_VIDEO)} :
            ProxyPostBegin(ProxyBody("form", d, f))

\* Only the error statuses (400 and above) count as a failed fetch
FetchFailed_ErrorStatusesOnly(r) == r.status_code >= 400

\* Line 35: response.status_code != 200
FetchFailed(r) == r.status_code # 200

UpstreamResponse(status_code, content_length, chunks) ==
    [ status_code |-> status_code, content_length |-> content_length,
      chunks |-> chunks ]

\* Lines 33-49 with requests.get returning r: any status but 200 is relayed
\* with send_error; on 200 the download headers are sent.
ProxyFetchReturns(r) ==
    /\ pc = "proxy_fetch"
    /\ upstreamGets' = upstreamGets + 1
    /\ response' = r
    /\ IF FetchFailed(r)
       THEN /\ wire' = wire \o SendError(r.status_code, <<"Failed to fetch video">>)
            /\ pc' = "done"
       ELSE /\ wire' = wire
                \o <<Status(200),
                     Header("Content-Type", <<"video/mp4">>),
                     Header("Content-Disposition",
                            <<"attachment; filename=\"">> \o filename.v \o <<"\"">>)>>
                \o (IF Truthy(Get(r, "content_length"))
                    THEN <<Header("Content-Length", r.content_length.v)>>
                    ELSE <<>>)
                \o <<EndHeaders>>
            /\ pc' = "proxy_stream"
    /\ UNCHANGED <<endpoint, method, post_data, url, action, info, download_url,
                   filename, nread, extractCalls, exc>>

\* The upstream answers; its body is up to MaxChunks chunks, each with
\* data (TRUE) or empty (FALSE)
ProxyFetch ==
    /\ pc = "proxy_fetch"
    /\ \E status_code \in UpstreamStatuses,
          content_length \in {Absent, Str(<<"3">>)},
          n \in 0..MaxChunks :
          \E chunks \in [1..n -> BOOLEAN] :
            ProxyFetchReturns(UpstreamResponse(status_code, content_length, chunks))

\* Lines 33 and 56-57: requests.get raises (no connection, timeout, a url
\* that is none)
ProxyFetchRaises ==
    /\ pc = "proxy_fetch"
    /\ upstreamGets' = upstreamGets + 1
    /\ \E e \in {"ConnectionError", "Timeout"} :
          /\ exc' = <<e>>
          /\ wire' = wire \o SendError(500, <<"Download error: ", e>>)
    /\ pc' = "done"
    /\ UNCHANGED <<endpoint, method, post_data, url, action, info, download_url,
                   filename, response, nread, extractCalls>>

\* Lines 52-54: the next chunk is read and, unless empty, written
ProxyStreamChunk ==
    /\ pc = "proxy_stream"
    /\ nread < Len(response.chunks)
    /\ nread' = nread + 1
    /\ wire' = IF response.chunks[nread + 1]
               THEN Append(wire, Chunk(nread + 1))
               ELSE wire
    /\ UNCHANGED <<pc, endpoint, method, post_data, url, action, info,
                   download_url, filename, response, extractCalls, upstreamGets,
                   exc>>

\* Lines 52 and 56-57: reading the next chunk raises; send_error(500) is
\* written after whatever was sent before
ProxyStreamRaises ==
    /\ pc = "proxy_stream"
    /\ exc' = <<"ChunkedEncodingError">>
    /\ wire' = wire \o SendError(500, <<"Download error: ", "ChunkedEncodingError">>)
    /\ pc' = "done"
    /\ UNCHANGED <<endpoint, method, post_data, url, action, info, download_url,
                   filename, response, nread, extractCalls, upstreamGets>>

\* Line 52: the upstream body is exhausted and do_POST returns
ProxyStreamEnd ==
    /\ pc = "proxy_stream"
    /\ nread = Len(response.chunks)
    /\ pc' = "done"
    /\ UNCHANGED <<endpoint, method, post_data, url, action, info, download_url,
                   filename, response, nread, wire, extractCalls, upstreamGets,
                   exc>>

\* Lines 59-64
ProxyOptions ==
    /\ pc = "idle"
    /\ endpoint' = "proxy"
    /\ method' = "OPTIONS"
    /\ wire' = <<Status(200)>> \o CorsHeaders \o <<EndHeaders>>
    /\ pc' = "done"
    /\ UNCHANGED <<post_data, url, action, info, download_url, filename,
                   response, nread, extractCalls, upstreamGets, exc>>

-----------------------------------------------------------------------------
\* The handler object is dropped with the request; the next request starts
\* from a new one.
Finish ==
    /\ pc = "done"
    /\ pc' = "idle"
    /\ endpoint' = "none"
    /\ method' = "none"
    /\ post_data' = Nil
    /\ url' = Nil
    /\ action' = Nil
    /\ info' = Nil
    /\ download_url' = Nil
    /\ filename' = Nil
    /\ response' = Nil
    /\ nread' = 0
    /\ wire' = <<>>
    /\ extractCalls' = 0
    /\ upstreamGets' = 0
    /\ exc' = <<>>

Next ==
    \/ InfoPost
    \/ InfoExtractMetadata
    \/ InfoExtractFormats
    \/ InfoExtractNothing
    \/ InfoExtractRaises
    \/ InfoOptions
    \/ ProxyPostMalformed
    \/ ProxyPostJson
    \/ ProxyPostNamed
    \/ ProxyPostForm
    \/ ProxyFetch
    \/ ProxyFetchRaises
    \/ ProxyStreamChunk
    \/ ProxyStreamRaises
    \/ ProxyStreamEnd
    \/ ProxyOptions
    \/ Finish

Spec == Init /\ [][Next]_vars

-----------------------------------------------------------------------------
(* What the caller receives *)

EndIndex(w) ==
    LET ends == {j \in 1..Len(w) : w[j] = EndHeaders}
    IN  IF ends = {} THEN 0 ELSE CHOOSE j \in ends : \A m \in ends : j <= m

\* The status of the response: the first status line on the wire
CallerStatus == IF wire # <<>> /\ wire[1].k = "status" THEN wire[1].code ELSE 0

\* The header block of the response
CallerHeaders == {wire[j] : j \in 2..(EndIndex(wire) - 1)}

\* Everything after the header block
CallerBody == SubSeq(wire, EndIndex(wire) + 1, Len(wire))

ChunksWritten == {j \in 1..Len(wire) : wire[j].k = "chunk"}

InfoPostDone == endpoint = "info" /\ method = "POST" /\ pc = "done"
ProxyPostDone == endpoint = "proxy" /\ method = "POST" /\ pc = "done"

-----------------------------------------------------------------------------
(* C1 *)

\* The url of the request body as the client sent it, when it is a string
\* (a missing url is the empty string)
HasRawUrl ==
    /\ endpoint = "info" /\ method = "POST"
    /\ post_data.kind = "json_object"
    /\ IsStr(GetDefault(post_data, "url", Str(<<>>)))

RawUrl == GetDefault(post_data, "url", Str(<<>>)).v

Blank(s) == \A j \in 1..Len(s) : s[j] \in Whitespace

\* s without the whitespace around it
Trimmed(s) ==
    LET inner == {j \in 1..Len(s) : s[j] \notin Whitespace}
    IN  IF inner = {} THEN <<>>
        ELSE SubSeq(s, CHOOSE j \in inner : \A m \in inner : j <= m,
                       CHOOSE j \in inner : \A m \in inner : m <= j)

\* The twelve ways a matching url may begin: an optional http:// or
\* https://, an optional www., youtube.com or youtu.be, and a slash
PatternPrefixes ==
    { scheme \o www \o host \o <<"/">> :
        scheme \in {<<>>, HTTP, HTTPS}, www \in {<<>>, WWW},
        host \in {YOUTUBE_COM, YOUTU_BE} }

\* s matches ^(https?://)?(www\.)?(youtube\.com|youtu\.be)/.+
MatchesYouTubePattern(s) ==
    \E n \in 1..(Len(s) - 1) : SubSeq(s, 1, n) \in PatternPrefixes /\ s[n + 1] # "\n"

\* C1: on a POST to the info handler, an empty or whitespace-only url is
\* answered with {error: "URL is required"}, a url that (trimmed) does not
\* match the YouTube pattern with {error: "Invalid YouTube URL"}, in both
\* cases without any call of the extractor; the extractor is called only
\* for a non-empty url that matches the pattern.
C1_ValidationBeforeExtraction ==
    /\ HasRawUrl /\ Blank(RawUrl) =>
          /\ pc = "done"
          /\ CallerBody = <<ErrorBody(<<"URL is required">>)>>
          /\ extractCalls = 0
    /\ HasRawUrl /\ ~Blank(RawUrl) /\ ~MatchesYouTubePattern(Trimmed(RawUrl)) =>
          /\ pc = "done"
          /\ CallerBody = <<ErrorBody(<<"Invalid YouTube URL">>)>>
          /\ extractCalls = 0
    /\ (pc = "info_extract" \/ extractCalls > 0) =>
          /\ HasRawUrl
          /\ ~Blank(RawUrl)
          /\ MatchesYouTubePattern(Trimmed(RawUrl))

\* A request with a url of another site has been rejected
C1_Witness ==
    /\ InfoPostDone
    /\ HasRawUrl
    /\ RawUrl = <<"v", "i", "m", "e", "o", ".", "c", "o", "m">> \o W
    /\ CallerBody = <<ErrorBody(<<"Invalid YouTube URL">>)>>
    /\ extractCalls = 0

-----------------------------------------------------------------------------
(* C2 *)

IsErrorBody(item) == item.k = "body" /\ DOMAIN item.data = {"error"}

IsSuccessBody(item) ==
    /\ item.k = "body"
    /\ "success" \in DOMAIN item.data
    /\ item.data.success = TRUE
    /\ ("video_info" \in DOMAIN item.data \/ "download_url" \in DOMAIN item.data)

\* C2: every POST to the info handler ends with status 200 and exactly one
\* JSON body, a success payload or {error: message}.
C2_OneJsonBody ==
    InfoPostDone =>
        /\ CallerStatus = 200
        /\ Len(CallerBody) = 1
        /\ IsErrorBody(CallerBody[1]) \/ IsSuccessBody(CallerBody[1])

-----------------------------------------------------------------------------
(* C3 *)

\* The body is JSON or form data and has no download_url in it
CarriesNoDownloadUrl ==
    \/ post_data.kind = "json_other"
    \/ /\ post_data.kind \in {"json_object", "form"}
       /\ post_data.download_url \in {Absent, None, Str(<<>>)}

\* C3: a POST to the proxy handler whose JSON or form body carries no
\* download_url gets status 400; no upstream GET is issued and no chunk is
\* written.
C3_MissingUrlIs400 ==
    ProxyPostDone /\ CarriesNoDownloadUrl =>
        /\ CallerStatus = 400
        /\ upstreamGets = 0
        /\ ChunksWritten = {}

-----------------------------------------------------------------------------
(* C4 *)

UpstreamFailed ==
    endpoint = "proxy" /\ response # Nil /\ response.status_code # 200

\* C4: when the upstream GET returns a status other than 200, the caller
\* gets that status, the GET was issued exactly once and no chunk of the
\* upstream body is written to the caller.
C4_UpstreamStatusRelayed ==
    UpstreamFailed =>
        /\ pc = "done"
        /\ CallerStatus = response.status_code
        /\ upstreamGets = 1
        /\ ChunksWritten = {}
        /\ nread = 0

\* An upstream 404 with a body of its own has been relayed
C4_Witness ==
    /\ ProxyPostDone
    /\ UpstreamFailed
    /\ response.status_code = 404
    /\ Len(response.chunks) > 0
    /\ response.chunks[1]
    /\ CallerStatus = 404

-----------------------------------------------------------------------------
(* C5 *)

\* The get_download_url action has shaped the format list the extractor
\* returned
DownloadFormatsShaped ==
    /\ InfoPostDone
    /\ action = ACTION_GET_DOWNLOAD_URL
    /\ extractCalls = 1
    /\ info # Nil /\ ~InfoFalsy(info)
    /\ info.formats.t = "list"

HasUrl(fmt) == fmt.url # Absent /\ fmt.url # None /\ fmt.url # Str(<<>>)
IsMp4(fmt) == fmt.ext = Str(<<"mp4">>)
NotNone(codec) == codec # Str(<<"none">>)

\* Entries with ext=mp4, a url, vcodec not 'none' and acodec not 'none'
FullEntries(fs) ==
    {j \in 1..Len(fs) : IsMp4(fs[j]) /\ HasUrl(fs[j]) /\ NotNone(fs[j].vcodec)
                        /\ NotNone(fs[j].acodec)}

\* Entries with a url and vcodec not 'none'
VideoEntries(fs) == {j \in 1..Len(fs) : HasUrl(fs[j]) /\ NotNone(fs[j].vcodec)}

\* A codec that is set: the key is there and its value is not 'none'
CodecSet(codec) == IsStr(codec) /\ NotNone(codec)

\* Entries with ext=mp4 and both codecs set, whether or not they have a url
Mp4BothCodecs(fs) ==
    {j \in 1..Len(fs) : IsMp4(fs[j]) /\ CodecSet(fs[j].vcodec) /\ CodecSet(fs[j].acodec)}

Last(S) == CHOOSE j \in S : \A m \in S : m <= j

Selected(j) ==
    /\ Len(CallerBody) = 1
    /\ IsSuccessBody(CallerBody[1])
    /\ "download_url" \in DOMAIN CallerBody[1].data
    /\ CallerBody[1].data.download_url = info.formats.v[j].url

\* The first sentence of C5: the last full entry, else the last video
\* entry, else the error
SelectionRule(fs) ==
    IF FullEntries(fs) # {} THEN Selected(Last(FullEntries(fs)))
    ELSE IF VideoEntries(fs) # {} THEN Selected(Last(VideoEntries(fs)))
    ELSE CallerBody = <<ErrorBody(<<"No suitable download format found">>)>>

\* C5 (amended): for get_download_url, scanning the format list from its
\* last entry to its first, the response carries the url of the first entry
\* with ext=mp4, a url, vcodec not 'none' and acodec not 'none'; failing
\* that, of the first entry with a url and vcodec not 'none'; failing that,
\* the error 'No suitable download format found'.  When exactly one entry
\* has ext=mp4, a url and both codecs not 'none', that entry is selected
\* wherever it stands in the list.
C5_FormatSelection ==
    DownloadFormatsShaped =>
        LET fs == info.formats.v
        IN  /\ SelectionRule(fs)
            /\ Cardinality(FullEntries(fs)) = 1 =>
                   \A j \in FullEntries(fs) : Selected(j)

\* C5 as stated: ... when exactly one entry has ext=mp4 with both vcodec
\* and acodec set, that entry is the one selected, wherever it stands.
C5_Original ==
    DownloadFormatsShaped =>
        LET fs == info.formats.v
        IN  /\ SelectionRule(fs)
            /\ Cardinality(Mp4BothCodecs(fs)) = 1 =>
                   \A j \in Mp4BothCodecs(fs) : Selected(j)

\* The only full entry stands first, before a later video-only entry with a
\* url, and is the one selected
C5_Witness ==
    /\ DownloadFormatsShaped
    /\ Len(info.formats.v) = 2
    /\ FullEntries(info.formats.v) = {1}
    /\ VideoEntries(info.formats.v) = {1, 2}
    /\ Selected(1)

-----------------------------------------------------------------------------
(* C6, C7 *)

\* The filename the client sent, when the handler got as far as cleaning it
FilenameCleaned ==
    /\ endpoint = "proxy" /\ method = "POST"
    /\ pc = "proxy_fetch" \/ upstreamGets > 0

RawFilename ==
    IF post_data.kind = "json_object"
    THEN GetDefault(post_data, "filename", Str(DEFAULT_FILENAME)).v
    ELSE IF post_data.filename \in {Absent, Str(<<>>)} THEN DEFAULT_FILENAME
    ELSE post_data.filename.v

\* The characters C6 says are kept
ClaimedKept == Uppercase \cup Lowercase \cup Digits \cup {" ", "-", "_", "."}

ContentDisposition(name) ==
    Header("Content-Disposition", <<"attachment; filename=\"">> \o name \o <<"\"">>)

DispositionSent == \E h \in CallerHeaders : h.name = "Content-Disposition"

\* C6: the filename put into Content-Disposition is the input with each
\* character of A-Z a-z 0-9 space - _ . kept and every other character
\* (tab, CR, LF and the double quote among them) replaced by one '_'.
C6_OnlyClaimedCharsKept ==
    FilenameCleaned =>
        LET expected == [j \in 1..Len(RawFilename) |->
                            IF RawFilename[j] \in ClaimedKept
                            THEN RawFilename[j] ELSE "_"]
        IN  /\ filename = Str(expected)
            /\ \A j \in 1..Len(filename.v) : filename.v[j] \in ClaimedKept
            /\ DispositionSent => ContentDisposition(expected) \in CallerHeaders

\* "My Video___.mp4"
MY_VIDEO_CLEANED ==
    <<"M", "y", " ", "V", "i", "d", "e", "o", "_", "_", "_", ".", "m", "p", "4">>

\* "My_Video___.mp4"
MY_VIDEO_CLAIMED ==
    <<"M", "y", "_", "V", "i", "d", "e", "o", "_", "_", "_", ".", "m", "p", "4">>

\* C7 (amended): cleaning "My Video!@#.mp4" yields "My Video___.mp4": each
\* of '!', '@', '#' is replaced by '_' and the space is kept.
C7_MyVideo ==
    FilenameCleaned /\ RawFilename = MY_VIDEO =>
        /\ filename = Str(MY_VIDEO_CLEANED)
        /\ DispositionSent => ContentDisposition(MY_VIDEO_CLEANED) \in CallerHeaders

\* C7 as stated: cleaning "My Video!@#.mp4" yields "My_Video___.mp4".
C7_Original ==
    FilenameCleaned /\ RawFilename = MY_VIDEO => filename = Str(MY_VIDEO_CLAIMED)

\* "My Video!@#.mp4" has been cleaned and sent in Content-Disposition
C7_Witness ==
    /\ FilenameCleaned
    /\ RawFilename = MY_VIDEO
    /\ DispositionSent
    /\ ContentDisposition(MY_VIDEO_CLEANED) \in CallerHeaders

-----------------------------------------------------------------------------
(* C8 *)

\* C8: every response of either handler, to POST and to OPTIONS, on success
\* and on every error path, has the header Access-Control-Allow-Origin: *.
C8_CorsOnEveryResponse ==
    pc = "done" => Header("Access-Control-Allow-Origin", <<"*">>) \in CallerHeaders

-----------------------------------------------------------------------------
(* C9 *)

VideoInfoKeys ==
    {"title", "duration", "thumbnail", "uploader", "video_id", "download_url",
     "filesize"}

\* C9: the video_info of a success response has all seven keys and none of
\* them is null.
C9_NoNullInVideoInfo ==
    /\ InfoPostDone
    /\ Len(CallerBody) = 1
    /\ IsSuccessBody(CallerBody[1])
    /\ "video_info" \in DOMAIN CallerBody[1].data
    => /\ DOMAIN CallerBody[1].data.video_info = VideoInfoKeys
       /\ \A key \in VideoInfoKeys : CallerBody[1].data.video_info[key] # None

-----------------------------------------------------------------------------
(* C10 *)

\* C10: when reading the request, the upstream fetch or the relay of the
\* chunks raises, the caller gets status 500 with the description of the
\* exception.
C10_ExceptionIs500 ==
    ProxyPostDone /\ exc # <<>> =>
        /\ CallerStatus = 500
        /\ \E j \in 1..Len(CallerBody) :
              /\ CallerBody[j].k = "body"
              /\ CallerBody[j].data = [code |-> 500,
                                       message |-> <<"Download error: ">> \o exc]

====
